---------------------------- MODULE Spec2Model ----------------------------
(***************************************************************************)
(* claude-sync: the link reconciler (SymlinkManager), the init / add /     *)
(* remove commands that drive it, and the project registry                 *)
(* (ConfigManager), as a state machine over a small filesystem.            *)
(*                                                                         *)
(* A filesystem location is a record [base, rel]: join(base, rel).  base   *)
(* is a project root ("/r1") or a project slot ("/sync/projects/p1"); rel  *)
(* is a tracked-candidate relative path.  An entry is nothing, a regular   *)
(* file (with the location its content was written at), or a symbolic link *)
(* with its recorded target.                                               *)
(*                                                                         *)
(* Two revisions of SymlinkManager live in the repository:                 *)
(*   - link-in-repository (the one init/add/remove are written against):   *)
(*     specification Spec;                                                 *)
(*   - move-and-link: specification SpecMoveAndLink.                       *)
(*                                                                         *)
(* Further specifications: SpecForward (GitForwarder.forward), SpecScan    *)
(* (FileScanner.scan with any pattern lists), SpecSanitize                 *)
(* (sanitizeProjectName), SpecTwoNames (init and remove under two names),  *)
(* SpecRegistry (two ConfigManager calls interleaved) and SpecCrash        *)
(* (createSymlinks one filesystem call at a time).                         *)
(***************************************************************************)
EXTENDS Naturals, Sequences, FiniteSets, TLC

\* ------------------------------------------------------------------ bounds

\* Most file arguments one `add` / `remove` invocation is given.
MaxBatch == 2

\* Most changes made to the filesystem from outside the tool in one behaviour.
MaxEnv == 3

\* ------------------------------------------------------- the small universe

ProjectNames == {"p1", "p2"}

\* The names one behaviour of Spec registers projects under.
OneProject == {"p1"}

\* One project root; Elsewhere is a root the links of another checkout of the
\* centralized repository point into.
Roots == {"/r1"}

Elsewhere == "/old"

SyncRepoPath == "/sync"

\* FileScanner's default filePatterns, instantiated: an exact literal and one
\* match of the glob ".claude/commands/*.md".
Paths == {"CLAUDE.local.md", ".claude/commands/a.md"}

\* The order scan() returns them in: exact literals first, then the walk.
ScanOrder == <<"CLAUDE.local.md", ".claude/commands/a.md">>

\* SyncRepository.getProjectPath: join(repoPath, "projects", name).
getProjectPath(name) == SyncRepoPath \o "/projects/" \o name

Slots == {getProjectPath(n) : n \in ProjectNames}

Bases == Roots \cup Slots

Join(base, rel) == [base |-> base, rel |-> rel]

Locs == {Join(b, p) : b \in Bases, p \in Paths}

NoLoc == [base |-> "", rel |-> ""]

NoEntry == [kind |-> "none", target |-> NoLoc]

\* A regular file; its content is named by the location it was written at,
\* which a copy of the file keeps.
RegularFile(writtenAt) == [kind |-> "file", target |-> writtenAt]

Symlink(target) == [kind |-> "link", target |-> target]

\* dirname of a relative path, relative to its base ("" is the base itself).
RelDir(rel) ==
  CASE rel = ".claude/commands/a.md" -> ".claude/commands"
    [] rel = ".claude/commands" -> ".claude"
    [] OTHER -> ""

\* Directories of the centralized repository are [base, rel] with rel a
\* directory below the base; [SyncRepoPath, "projects"] holds the slots.
ProjectsDir == [base |-> SyncRepoPath, rel |-> "projects"]

RepoRootDir == [base |-> SyncRepoPath, rel |-> ""]

\* dirname(dir)
ParentDir(dir) ==
  IF dir.base \in Slots
    THEN IF dir.rel = "" THEN ProjectsDir ELSE Join(dir.base, RelDir(dir.rel))
    ELSE RepoRootDir

\* dir and every directory above it, up to the repository root.
RECURSIVE Ancestors(_)
Ancestors(dir) ==
  IF dir = RepoRootDir THEN {dir} ELSE {dir} \cup Ancestors(ParentDir(dir))

VARIABLES
  fs,        \* Locs -> entry: the project roots and the project slots
  dirs,      \* the directories that exist inside the centralized repository
  registry,  \* config/projects.yaml: sequence of [name, path, trackedFiles]
  last,      \* what the last operation was and what it returned
  envSteps,  \* outside changes made so far
  procs      \* the invocations that are part-way through: position and locals

vars == <<fs, dirs, registry, last, envSteps, procs>>

\* ----------------------------------------------------------- small helpers

Range(s) == {s[i] : i \in 1..Len(s)}

\* The sequences over S of length at most n.
RECURSIVE SeqsUpTo(_, _)
SeqsUpTo(S, n) ==
  IF n = 0 THEN {<<>>}
  ELSE LET shorter == SeqsUpTo(S, n - 1)
       IN  shorter \cup {Append(s, x) : s \in {t \in shorter : Len(t) = n - 1}, x \in S}


\* ------------------------------------------------- filesystem primitives

\* @std/fs ensureDir(dir): creates dir and its missing ancestors.  Only the
\* directories of the centralized repository are tracked.
ensureDir(w, dir) ==
  IF dir.base \in Slots
    THEN [w EXCEPT !.dirs = w.dirs \cup Ancestors(dir)]
    ELSE w

\* dirname(join(base, rel)) as a directory.
DirOf(loc) == Join(loc.base, RelDir(loc.rel))

\* Deno.remove(path) of a file or link.
RemoveEntry(w, loc) == [w EXCEPT !.fs[loc] = NoEntry]

\* @std/fs exists(path): follows links, so a dangling link does not exist.
RECURSIVE exists(_, _)
exists(w, loc) ==
  IF loc \notin Locs THEN FALSE
  ELSE CASE w.fs[loc].kind = "none" -> FALSE
         [] w.fs[loc].kind = "file" -> TRUE
         [] OTHER -> IF w.fs[loc].target = loc THEN FALSE
                     ELSE exists([w EXCEPT !.fs[loc] = NoEntry], w.fs[loc].target)

\* What reading `loc` gives: the regular file a chain of links ends at, or
\* NoEntry.
RECURSIVE readThrough(_, _)
readThrough(w, loc) ==
  IF loc \notin Locs THEN NoEntry
  ELSE CASE w.fs[loc].kind = "none" -> NoEntry
         [] w.fs[loc].kind = "file" -> w.fs[loc]
         [] OTHER -> IF w.fs[loc].target = loc THEN NoEntry
                     ELSE readThrough([w EXCEPT !.fs[loc] = NoEntry], w.fs[loc].target)

\* The mutant of ensureSymlink that records the link's own path as target.
ensureSymlinkSwapped(w, target, linkName) ==
  IF w.fs[target].kind = "none" THEN [w |-> w, ok |-> FALSE]
  ELSE IF w.fs[linkName].kind = "none"
    THEN [w |-> [ensureDir(w, DirOf(linkName)) EXCEPT !.fs[linkName] = Symlink(linkName)],
          ok |-> TRUE]
    ELSE [w |-> ensureDir(w, DirOf(linkName)), ok |-> FALSE]

\* @std/fs ensureSymlink(target, linkName): lstat(target) must succeed; the
\* parent directory is ensured; Deno.symlink; when something is already at
\* linkName it must be a link recording the same target, else it throws.
ensureSymlink(w, target, linkName) ==
  IF w.fs[target].kind = "none" THEN [w |-> w, ok |-> FALSE]
  ELSE LET w1 == ensureDir(w, DirOf(linkName))
       IN  CASE w1.fs[linkName].kind = "none" ->
                  [w |-> [w1 EXCEPT !.fs[linkName] = Symlink(target)], ok |-> TRUE]
             [] w1.fs[linkName].kind = "file" -> [w |-> w1, ok |-> FALSE]
             [] OTHER -> [w |-> w1, ok |-> w1.fs[linkName].target = target]

\* SymlinkManager.verifySymlink(linkPath, targetPath)
verifySymlink(w, linkPath, targetPath) ==
  IF w.fs[linkPath].kind # "link" THEN FALSE
  ELSE w.fs[linkPath].target = targetPath

\* A ClaudeFile as scan / scanSingle return it.
ClaudeFile(root, rel) == [path |-> Join(root, rel), relativePath |-> rel]

\* --------------------------------- SymlinkManager, link-in-repository

\* One iteration of createSymlinks' loop: ensureDir(linkDir); remove what is
\* at linkPath when lstat says it is a link; ensureSymlink(file.path, linkPath).
createOne(w, file, syncProjectDir) ==
  LET linkPath == Join(syncProjectDir, file.relativePath)
      w1 == ensureDir(w, DirOf(linkPath))
      w2 == IF w1.fs[linkPath].kind = "link" THEN RemoveEntry(w1, linkPath) ELSE w1
  IN  ensureSymlink(w2, file.path, linkPath)

\* createSymlinks(files, syncProjectDir): the loop from file i on.  The first
\* failure throws SymlinkError(file.relativePath): err is that path, and
\* nothing is returned.
RECURSIVE createLoop(_, _, _, _, _)
createLoop(w, files, syncProjectDir, i, createdLinks) ==
  IF i > Len(files) THEN [w |-> w, created |-> createdLinks, err |-> ""]
  ELSE LET r == createOne(w, files[i], syncProjectDir)
       IN  IF r.ok
             THEN createLoop(r.w, files, syncProjectDir, i + 1,
                             Append(createdLinks, files[i].relativePath))
             ELSE [w |-> r.w, created |-> <<>>, err |-> files[i].relativePath]

createSymlinks(w, files, syncProjectDir) ==
  createLoop(w, files, syncProjectDir, 1, <<>>)

\* getProjectSymlinks(projectDir): the links below projectDir, in directory
\* order.
getProjectSymlinks(w, projectDir) ==
  SelectSeq(ScanOrder, LAMBDA rel : w.fs[Join(projectDir, rel)].kind = "link")


\* updateSymlinks, orphan loop: every current link whose relativePath is not
\* in trackedSet is removed and reported.
removeOrphans(w, project, syncProjectDir) ==
  LET currentLinks == getProjectSymlinks(w, syncProjectDir)
      trackedSet == Range(project.trackedFiles)
      orphans == SelectSeq(currentLinks, LAMBDA rel : rel \notin trackedSet)
  IN  [w |-> [w EXCEPT !.fs = [loc \in Locs |->
                 IF loc.base = syncProjectDir /\ loc.rel \in Range(orphans)
                   THEN NoEntry ELSE w.fs[loc]]],
       removed |-> orphans]

\* The mutant of checkTracked that treats a regular file at the tracked slot
\* path like a stale link: removes it and links.
checkTrackedOverwrite(acc, project, syncProjectDir, trackedFile) ==
  LET linkPath == Join(syncProjectDir, trackedFile)
      sourcePath == Join(project.path, trackedFile)
      w == acc.w
  IN  IF w.fs[linkPath].kind # "none" /\ ~verifySymlink(w, linkPath, sourcePath)
        THEN LET r == ensureSymlink(RemoveEntry(w, linkPath), sourcePath, linkPath)
             IN  IF r.ok THEN [acc EXCEPT !.w = r.w, !.updated = Append(@, trackedFile)]
                 ELSE [acc EXCEPT !.w = r.w]
        ELSE IF w.fs[linkPath].kind = "none" /\ exists(w, sourcePath)
          THEN LET r == ensureSymlink(ensureDir(w, DirOf(linkPath)), sourcePath, linkPath)
               IN  [acc EXCEPT !.w = r.w, !.added = Append(@, trackedFile)]
          ELSE acc

\* The mutant of checkTracked that compares nothing: every link at a tracked
\* path is removed and recreated.
checkTrackedAlways(acc, project, syncProjectDir, trackedFile) ==
  LET linkPath == Join(syncProjectDir, trackedFile)
      sourcePath == Join(project.path, trackedFile)
      w == acc.w
  IN  IF w.fs[linkPath].kind = "link"
        THEN LET r == ensureSymlink(RemoveEntry(w, linkPath), sourcePath, linkPath)
             IN  IF r.ok THEN [acc EXCEPT !.w = r.w, !.updated = Append(@, trackedFile)]
                 ELSE [acc EXCEPT !.w = r.w]
        ELSE IF w.fs[linkPath].kind = "none" /\ exists(w, sourcePath)
          THEN LET r == ensureSymlink(ensureDir(w, DirOf(linkPath)), sourcePath, linkPath)
               IN  [acc EXCEPT !.w = r.w, !.added = Append(@, trackedFile)]
          ELSE acc

\* The mutant of checkTracked that removes a link whose source is gone and
\* reports it as removed.
checkTrackedDropDangling(acc, project, syncProjectDir, trackedFile) ==
  LET linkPath == Join(syncProjectDir, trackedFile)
      sourcePath == Join(project.path, trackedFile)
      w == acc.w
      caught(v) ==
        IF exists(v, sourcePath)
          THEN LET r == ensureSymlink(ensureDir(v, DirOf(linkPath)), sourcePath, linkPath)
               IN  [acc EXCEPT !.w = r.w,
                               !.added = IF r.ok THEN Append(@, trackedFile) ELSE @,
                               !.threw = ~r.ok]
          ELSE [acc EXCEPT !.w = v]
  IN  CASE w.fs[linkPath].kind = "none" -> caught(w)
        [] w.fs[linkPath].kind = "file" -> acc
        [] OTHER ->
             IF w.fs[linkPath].target # sourcePath
               THEN LET r == ensureSymlink(RemoveEntry(w, linkPath), sourcePath, linkPath)
                    IN  IF r.ok
                          THEN [acc EXCEPT !.w = r.w, !.updated = Append(@, trackedFile)]
                          ELSE caught(r.w)
               ELSE IF ~exists(w, sourcePath)
                 THEN [acc EXCEPT !.w = RemoveEntry(w, linkPath),
                                  !.removed = Append(@, trackedFile)]
                 ELSE acc

\* updateSymlinks, one iteration of the tracked loop.  Inside the try: lstat;
\* a link whose readLink differs from sourcePath is removed and recreated
\* (ensureSymlink throwing lands in the catch, after the remove); a non-link
\* is left alone.  In the catch: when the source exists, ensureDir,
\* ensureSymlink, and the path is reported as added.
checkTracked(acc, project, syncProjectDir, trackedFile) ==
  LET linkPath == Join(syncProjectDir, trackedFile)
      sourcePath == Join(project.path, trackedFile)
      w == acc.w
      \* the catch block, entered from world v
      caught(v) ==
        IF exists(v, sourcePath)
          THEN LET r == ensureSymlink(ensureDir(v, DirOf(linkPath)), sourcePath, linkPath)
               IN  [acc EXCEPT !.w = r.w,
                               !.added = IF r.ok THEN Append(@, trackedFile) ELSE @,
                               !.threw = ~r.ok]
          ELSE [acc EXCEPT !.w = v]
  IN  CASE w.fs[linkPath].kind = "none" -> caught(w)
        [] w.fs[linkPath].kind = "file" -> acc
        [] OTHER ->
             IF w.fs[linkPath].target # sourcePath
               THEN LET r == ensureSymlink(RemoveEntry(w, linkPath), sourcePath, linkPath)
                    IN  IF r.ok
                          THEN [acc EXCEPT !.w = r.w, !.updated = Append(@, trackedFile)]
                          ELSE caught(r.w)
               ELSE acc

RECURSIVE trackedLoop(_, _, _, _)
trackedLoop(acc, project, syncProjectDir, i) ==
  IF i > Len(project.trackedFiles) \/ acc.threw THEN acc
  ELSE trackedLoop(checkTracked(acc, project, syncProjectDir, project.trackedFiles[i]),
                   project, syncProjectDir, i + 1)

\* SymlinkManager.updateSymlinks(project, syncProjectDir) -> the world after
\* it and {added, removed, updated}.  warned: the paths it called
\* logger.warn for; its only logger calls are logger.debug.
updateSymlinks(w, project, syncProjectDir) ==
  LET o == removeOrphans(w, project, syncProjectDir)
  IN  trackedLoop([w |-> o.w, added |-> <<>>, removed |-> o.removed,
                   updated |-> <<>>, warned |-> <<>>, threw |-> FALSE],
                  project, syncProjectDir, 1)

\* What the repository root always holds besides "projects".
RepoRootEntries == {".git", ".gitignore", "config"}

\* The mutant of readDir that sees no version-control metadata in the
\* repository root.
readDirNoMetadata(w, dir) ==
  {loc \in Locs : DirOf(loc) = dir /\ w.fs[loc].kind # "none"}
    \cup {d \in w.dirs : d # dir /\ ParentDir(d) = dir}

\* Deno.readDir(dir): the names directly inside dir.
readDir(w, dir) ==
  {loc \in Locs : DirOf(loc) = dir /\ w.fs[loc].kind # "none"}
    \cup {d \in w.dirs : d # dir /\ ParentDir(d) = dir}
    \cup (IF dir = RepoRootDir THEN {[base |-> SyncRepoPath, rel |-> e] : e \in RepoRootEntries}
          ELSE {})

\* cleanEmptyDirs(dir): when dir can be read and holds nothing, remove it and
\* go on with its parent; it never looks below dir.
RECURSIVE cleanEmptyDirs(_, _)
cleanEmptyDirs(w, dir) ==
  IF dir \notin w.dirs THEN w
  ELSE IF readDir(w, dir) = {}
    THEN LET w1 == [w EXCEPT !.dirs = w.dirs \ {dir}]
         IN  IF ParentDir(dir) # dir THEN cleanEmptyDirs(w1, ParentDir(dir)) ELSE w1
    ELSE w

\* SymlinkManager.removeSymlinks(syncProjectDir): removes every link below
\* the slot, then cleanEmptyDirs(syncProjectDir).
removeSymlinks(w, syncProjectDir) ==
  LET links == getProjectSymlinks(w, syncProjectDir)
      w1 == [w EXCEPT !.fs = [loc \in Locs |->
               IF loc.base = syncProjectDir /\ loc.rel \in Range(links)
                 THEN NoEntry ELSE w.fs[loc]]]
  IN  [w |-> cleanEmptyDirs(w1, Join(syncProjectDir, "")), removed |-> links]


\* ------------------------------------- SymlinkManager, move-and-link

\* Deno.copyFile(from, to): reads through a link at `from`; fails when
\* nothing is there to read.
copyFile(w, from, to) ==
  IF exists(w, from)
    THEN [w |-> [w EXCEPT !.fs[to] = readThrough(w, from)], ok |-> TRUE]
    ELSE [w |-> w, ok |-> FALSE]

\* One iteration of the move-and-link createSymlinks' loop: ensureDir;
\* remove what is at the path in the slot; copy the original there; remove
\* the original; link the original path to the copy.
moveOne(w, file, syncProjectDir) ==
  LET syncFilePath == Join(syncProjectDir, file.relativePath)
      w1 == RemoveEntry(ensureDir(w, DirOf(syncFilePath)), syncFilePath)
      c == copyFile(w1, file.path, syncFilePath)
  IN  IF c.ok
        THEN ensureSymlink(RemoveEntry(c.w, file.path), syncFilePath, file.path)
        ELSE [w |-> c.w, ok |-> FALSE]

RECURSIVE moveLoop(_, _, _, _, _)
moveLoop(w, files, syncProjectDir, i, createdLinks) ==
  IF i > Len(files) THEN [w |-> w, created |-> createdLinks, err |-> ""]
  ELSE LET r == moveOne(w, files[i], syncProjectDir)
       IN  IF r.ok
             THEN moveLoop(r.w, files, syncProjectDir, i + 1,
                           Append(createdLinks, files[i].relativePath))
             ELSE [w |-> r.w, created |-> <<>>, err |-> files[i].relativePath]

\* createSymlinks(files, syncProjectDir), move-and-link.
moveAndLink(w, files, syncProjectDir) ==
  moveLoop(w, files, syncProjectDir, 1, <<>>)

\* getProjectFiles(projectDir): the regular files below projectDir.
getProjectFiles(w, projectDir) ==
  SelectSeq(ScanOrder, LAMBDA rel : w.fs[Join(projectDir, rel)].kind = "file")

\* The move-and-link updateSymlinks, orphan loop: every regular file of the
\* slot whose relativePath is not in trackedSet is removed and reported.
removeOrphanFiles(w, project, syncProjectDir) ==
  LET currentFiles == getProjectFiles(w, syncProjectDir)
      trackedSet == Range(project.trackedFiles)
      orphans == SelectSeq(currentFiles, LAMBDA rel : rel \notin trackedSet)
  IN  [w |-> [w EXCEPT !.fs = [loc \in Locs |->
                 IF loc.base = syncProjectDir /\ loc.rel \in Range(orphans)
                   THEN NoEntry ELSE w.fs[loc]]],
       removed |-> orphans]

\* The move-and-link updateSymlinks, one iteration of the tracked loop: the
\* link is looked for at the original path and points into the slot.
checkOriginal(acc, project, syncProjectDir, trackedFile) ==
  LET syncFilePath == Join(syncProjectDir, trackedFile)
      originalPath == Join(project.path, trackedFile)
      w == acc.w
      caught(v) ==
        IF exists(v, syncFilePath)
          THEN LET r == ensureSymlink(v, syncFilePath, originalPath)
               IN  [acc EXCEPT !.w = r.w,
                               !.added = IF r.ok THEN Append(@, trackedFile) ELSE @,
                               !.threw = ~r.ok]
          ELSE [acc EXCEPT !.w = v]
  IN  CASE w.fs[originalPath].kind = "none" -> caught(w)
        [] w.fs[originalPath].kind = "file" -> acc
        [] OTHER ->
             IF w.fs[originalPath].target # syncFilePath
               THEN LET r == ensureSymlink(RemoveEntry(w, originalPath), syncFilePath, originalPath)
                    IN  IF r.ok
                          THEN [acc EXCEPT !.w = r.w, !.updated = Append(@, trackedFile)]
                          ELSE caught(r.w)
               ELSE acc

RECURSIVE originalLoop(_, _, _, _)
originalLoop(acc, project, syncProjectDir, i) ==
  IF i > Len(project.trackedFiles) \/ acc.threw THEN acc
  ELSE originalLoop(checkOriginal(acc, project, syncProjectDir, project.trackedFiles[i]),
                    project, syncProjectDir, i + 1)

\* updateSymlinks(project, syncProjectDir), move-and-link.
updateMoved(w, project, syncProjectDir) ==
  LET o == removeOrphanFiles(w, project, syncProjectDir)
  IN  originalLoop([w |-> o.w, added |-> <<>>, removed |-> o.removed,
                    updated |-> <<>>, warned |-> <<>>, threw |-> FALSE],
                   project, syncProjectDir, 1)

\* The move-and-link removeSymlinks, one tracked file: a link at the original
\* path is removed and the slot's file copied back; the slot's file is
\* removed.
restoreOne(w, project, syncProjectDir, trackedFile) ==
  LET syncFilePath == Join(syncProjectDir, trackedFile)
      originalPath == Join(project.path, trackedFile)
      w1 == IF w.fs[originalPath].kind = "link"
              THEN LET v == RemoveEntry(w, originalPath)
                   IN  IF exists(v, syncFilePath) THEN copyFile(v, syncFilePath, originalPath).w
                       ELSE v
              ELSE w
  IN  RemoveEntry(w1, syncFilePath)

RECURSIVE restoreLoop(_, _, _, _)
restoreLoop(w, project, syncProjectDir, i) ==
  IF i > Len(project.trackedFiles) THEN w
  ELSE restoreLoop(restoreOne(w, project, syncProjectDir, project.trackedFiles[i]),
                   project, syncProjectDir, i + 1)

\* removeSymlinks(syncProjectDir, project), move-and-link.
restoreAndRemove(w, syncProjectDir, project) ==
  [w |-> cleanEmptyDirs(restoreLoop(w, project, syncProjectDir, 1), Join(syncProjectDir, "")),
   removed |-> project.trackedFiles]

\* ------------------------------------------------------------ ConfigManager

Project(name, path, trackedFiles) ==
  [name |-> name, path |-> path, trackedFiles |-> trackedFiles]

\* The position of `name` among the registry's keys, 0 when absent.
IndexOf(reg, name) ==
  IF \E i \in 1..Len(reg) : reg[i].name = name
    THEN CHOOSE i \in 1..Len(reg) : reg[i].name = name
    ELSE 0

\* ConfigManager.projectExists(name)
projectExists(reg, name) == IndexOf(reg, name) # 0

\* ConfigManager.addProject: registry.projects[name] = project.
addProject(reg, name, project) ==
  IF projectExists(reg, name)
    THEN [reg EXCEPT ![IndexOf(reg, name)] = project]
    ELSE Append(reg, project)

\* ConfigManager.updateProject: the record of an existing key is replaced.
updateProject(reg, name, project) ==
  [reg EXCEPT ![IndexOf(reg, name)] = project]

\* ConfigManager.removeProject: delete registry.projects[name].
removeProject(reg, name) == SelectSeq(reg, LAMBDA p : p.name # name)

\* "Look for project by path": the first entry whose path is the git root,
\* 0 when there is none.
FindByPath(reg, root) ==
  IF \E i \in 1..Len(reg) : reg[i].path = root
    THEN CHOOSE i \in 1..Len(reg) :
           reg[i].path = root /\ \A j \in 1..(i - 1) : reg[j].path # root
    ELSE 0

\* -------------------------------------------------------------- FileScanner

\* FileScanner.scanSingle(rootPath, filePath): Deno.stat says it is a file.
scanSingle(w, root, rel) == exists(w, Join(root, rel))

\* FileScanner.scan(rootPath): the Claude files below rootPath.
scan(w, root) ==
  LET found == SelectSeq(ScanOrder, LAMBDA rel : scanSingle(w, root, rel))
  IN  [i \in 1..Len(found) |-> ClaudeFile(root, found[i])]

RelPaths(files) == [i \in 1..Len(files) |-> files[i].relativePath]

\* ------------------------------------------------------------------- state

World == [fs |-> fs, dirs |-> dirs]

NoLast ==
  [op |-> "none", name |-> "", root |-> "", code |-> 0, batch |-> <<>>,
   created |-> <<>>, err |-> "", added |-> <<>>, removed |-> <<>>,
   updated |-> <<>>, warned |-> <<>>, repeat |-> FALSE]

Done(op, name, root, code) ==
  [NoLast EXCEPT !.op = op, !.name = name, !.root = root, !.code = code]

Init ==
  /\ \E present \in SUBSET {loc \in Locs : loc.base \in Roots} :
       fs = [loc \in Locs |-> IF loc \in present THEN RegularFile(loc) ELSE NoEntry]
  /\ dirs = {RepoRootDir, ProjectsDir}
  /\ registry = <<>>
  /\ last = NoLast
  /\ envSteps = 0
  /\ procs = <<>>


\* ---------------------------------------------------------------- commands
\* Each command is an operator from the world, the registry and the
\* invocation's inputs to the world and registry it leaves and its outcome;
\* code is the process's exit status.

Outcome(w, reg, l) == [w |-> w, reg |-> reg, last |-> l]

\* The two revisions of SymlinkManager the commands can be linked against.
LinkInRepository == "link-in-repository"

MoveAndLink == "move-and-link"

\* symlinkManager.createSymlinks(files, projectDir, gitInfo.root)
createWith(manager, w, files, projectDir) ==
  IF manager = MoveAndLink
    THEN moveAndLink(w, files, projectDir)
    ELSE createSymlinks(w, files, projectDir)

\* The mutant of initCommand without the projectExists check.
initCommandNoCheck(manager, w, reg, name, root, proceed) ==
  LET files == scan(w, root)
      project == Project(name, root, RelPaths(files))
      reg1 == addProject(reg, name, project)
      projectDir == getProjectPath(name)
      r == createWith(manager, ensureDir(w, Join(projectDir, "")), files, projectDir)
  IN  IF Len(files) = 0
        THEN IF proceed
               THEN Outcome(w, reg1, Done("init", name, root, 0))
               ELSE Outcome(w, reg, [Done("init", name, root, 0) EXCEPT !.err = "cancelled"])
      ELSE IF r.err # ""
        THEN Outcome(r.w, reg1,
                     [Done("init", name, root, 1) EXCEPT !.batch = RelPaths(files), !.err = r.err])
        ELSE Outcome(r.w, reg1,
                     [Done("init", name, root, 0) EXCEPT !.batch = RelPaths(files),
                                                        !.created = r.created])

\* initCommand: `claude-sync init name` run inside the git repository `root`.
\* proceed is the answer to "No Claude files found. Continue anyway?".
initCommand(manager, w, reg, name, root, proceed) ==
  LET files == scan(w, root)
      project == Project(name, root, RelPaths(files))
      reg1 == addProject(reg, name, project)
      projectDir == getProjectPath(name)
      r == createWith(manager, ensureDir(w, Join(projectDir, "")), files, projectDir)
  IN  IF projectExists(reg, name)
        THEN Outcome(w, reg, Done("init", name, root, 1))
      ELSE IF Len(files) = 0
        THEN IF proceed
               THEN Outcome(w, reg1, Done("init", name, root, 0))
               ELSE Outcome(w, reg, [Done("init", name, root, 0) EXCEPT !.err = "cancelled"])
      ELSE IF r.err # ""
        THEN Outcome(r.w, reg1,
                     [Done("init", name, root, 1) EXCEPT !.batch = RelPaths(files), !.err = r.err])
        ELSE Outcome(r.w, reg1,
                     [Done("init", name, root, 0) EXCEPT !.batch = RelPaths(files),
                                                        !.created = r.created])

\* addCommand, "Determine files to add": with --all or no file argument the
\* scanned files not yet tracked; else each argument that is a file, in the
\* order given, unless it is already tracked.
filesToAdd(w, project, root, files, all) ==
  IF all \/ Len(files) = 0
    THEN SelectSeq(scan(w, root),
                   LAMBDA f : f.relativePath \notin Range(project.trackedFiles))
    ELSE LET kept == SelectSeq(files, LAMBDA rel :
                       scanSingle(w, root, rel) /\ rel \notin Range(project.trackedFiles))
         IN  [i \in 1..Len(kept) |-> ClaudeFile(root, kept[i])]

\* addCommand: `claude-sync add [files] [--all]` run inside `root`.
addCommand(manager, w, reg, root, files, all) ==
  LET i == FindByPath(reg, root)
      project == reg[i]
      toAdd == filesToAdd(w, project, root, files, all)
      projectDir == getProjectPath(project.name)
      r == createWith(manager, w, toAdd, projectDir)
      updated == [project EXCEPT !.trackedFiles = @ \o r.created]
  IN  IF i = 0
        THEN Outcome(w, reg, Done("add", "", root, 1))
      ELSE IF Len(toAdd) = 0
        THEN Outcome(w, reg, Done("add", project.name, root, 0))
      ELSE IF r.err # ""
        THEN Outcome(r.w, reg,
                     [Done("add", project.name, root, 1) EXCEPT !.batch = RelPaths(toAdd),
                                                               !.err = r.err])
        ELSE Outcome(r.w, updateProject(reg, project.name, updated),
                     [Done("add", project.name, root, 0) EXCEPT !.batch = RelPaths(toAdd),
                                                               !.created = r.created])

\* SyncRepository.removeProjectDir: Deno.remove(projectPath, {recursive}).
removeProjectDir(w, name) ==
  LET projectPath == getProjectPath(name)
  IN  IF Join(projectPath, "") \in w.dirs
        THEN [fs |-> [loc \in Locs |-> IF loc.base = projectPath THEN NoEntry ELSE w.fs[loc]],
              dirs |-> {d \in w.dirs : d.base # projectPath}]
        ELSE w

\* removeCommand, "Remove symlinks": Deno.remove(join(projectDir, file)) for
\* each file to remove; a failure is only warned about.
RECURSIVE removeEach(_, _, _, _)
removeEach(w, projectDir, files, i) ==
  IF i > Len(files) THEN w
  ELSE removeEach(RemoveEntry(w, Join(projectDir, files[i])), projectDir, files, i + 1)

\* removeCommand, the specific-files branch once confirmed: remove each
\* link, drop the files from trackedFiles, then removeSymlinks(projectDir)
\* "to clean the empty directories".
removeFiles(w, reg, project, files) ==
  LET projectDir == getProjectPath(project.name)
      w1 == removeEach(w, projectDir, files, 1)
      updated == [project EXCEPT !.trackedFiles =
                    SelectSeq(@, LAMBDA f : f \notin Range(files))]
  IN  Outcome(removeSymlinks(w1, projectDir).w,
              updateProject(reg, project.name, updated),
              [Done("remove", project.name, project.path, 0) EXCEPT !.batch = files])

\* removeCommand: `claude-sync remove [files] [--project]` run inside `root`.
\* confirmed is the answer to the confirmation prompt (or --yes).
removeCommand(w, reg, root, files, wholeProject, confirmed) ==
  LET i == FindByPath(reg, root)
      project == reg[i]
      projectDir == getProjectPath(project.name)
      filesToRemove == SelectSeq(files, LAMBDA f : f \in Range(project.trackedFiles))
      cancelled == [Done("remove", project.name, root, 0) EXCEPT !.err = "cancelled"]
  IN  IF i = 0
        THEN Outcome(w, reg, Done("remove", "", root, 1))
      ELSE IF wholeProject
        THEN IF ~confirmed THEN Outcome(w, reg, cancelled)
             ELSE Outcome(removeProjectDir(removeSymlinks(w, projectDir).w, project.name),
                          removeProject(reg, project.name),
                          [Done("remove", project.name, root, 0) EXCEPT !.err = "project"])
      ELSE IF Len(files) = 0
        THEN Outcome(w, reg, Done("remove", project.name, root, 1))
      ELSE IF Len(filesToRemove) = 0
        THEN Outcome(w, reg, Done("remove", project.name, root, 0))
      ELSE IF Len(filesToRemove) > 1 /\ ~confirmed
        THEN Outcome(w, reg, cancelled)
        ELSE removeFiles(w, reg, project, filesToRemove)

\* ----------------------------------------------------------------- actions

Apply(o) ==
  /\ fs' = o.w.fs
  /\ dirs' = o.w.dirs
  /\ registry' = o.reg
  /\ last' = o.last
  /\ UNCHANGED <<envSteps, procs>>

FileArgs == SeqsUpTo(Paths, MaxBatch)

InitAction(names) ==
  \E name \in names, root \in Roots, proceed \in BOOLEAN :
    Apply(initCommand(LinkInRepository, World, registry, name, root, proceed))

\* --all makes the file arguments irrelevant: it is tried without any.
AddAction ==
  \E root \in Roots, files \in FileArgs, all \in BOOLEAN :
    /\ all => files = <<>>
    /\ Apply(addCommand(LinkInRepository, World, registry, root, files, all))

\* --project makes the file arguments irrelevant: it is tried without any.
RemoveAction ==
  \E root \in Roots, files \in FileArgs, wholeProject \in BOOLEAN, confirmed \in BOOLEAN :
    /\ wholeProject => files = <<>>
    /\ Apply(removeCommand(World, registry, root, files, wholeProject, confirmed))

\* reconcile: updateSymlinks(project, slot of project) for a registered
\* project.  repeat: the operation before this one was the same reconcile.
ReconcileAction ==
  \E i \in 1..Len(registry) :
    LET project == registry[i]
        r == updateSymlinks(World, project, getProjectPath(project.name))
    IN  Apply(Outcome(r.w, registry,
              [Done("reconcile", project.name, project.path, IF r.threw THEN 1 ELSE 0)
                 EXCEPT !.added = r.added, !.removed = r.removed, !.updated = r.updated,
                        !.warned = r.warned,
                        !.repeat = (last.op = "reconcile" /\ last.name = project.name)]))

\* Changes from outside the tool.  In a project root: the user writes or
\* deletes a Claude file.  In the centralized repository's working tree: a
\* regular file or a link (with some recorded target) appears at a free
\* path, or an entry goes away, as a forwarded pull / checkout / reset /
\* stash pop leaves them.
Outside(newFs, newDirs) ==
  /\ envSteps < MaxEnv
  /\ envSteps' = envSteps + 1
  /\ fs' = newFs
  /\ dirs' = newDirs
  /\ last' = [NoLast EXCEPT !.op = "outside"]
  /\ UNCHANGED <<registry, procs>>

UserWritesFile ==
  \E root \in Roots, rel \in Paths :
    /\ fs[Join(root, rel)].kind = "none"
    /\ Outside([fs EXCEPT ![Join(root, rel)] = RegularFile(Join(root, rel))], dirs)

UserDeletesFile ==
  \E root \in Roots, rel \in Paths :
    /\ fs[Join(root, rel)].kind = "file"
    /\ Outside([fs EXCEPT ![Join(root, rel)] = NoEntry], dirs)

WorkingTreeGetsFile(names) ==
  \E slot \in {getProjectPath(n) : n \in names}, rel \in Paths :
    /\ fs[Join(slot, rel)].kind = "none"
    /\ Outside([fs EXCEPT ![Join(slot, rel)] = RegularFile(Join(slot, rel))],
               dirs \cup Ancestors(DirOf(Join(slot, rel))))

WorkingTreeGetsLink(names) ==
  \E slot \in {getProjectPath(n) : n \in names}, rel \in Paths, root \in Roots \cup {Elsewhere} :
    /\ fs[Join(slot, rel)].kind = "none"
    /\ Outside([fs EXCEPT ![Join(slot, rel)] = Symlink(Join(root, rel))],
               dirs \cup Ancestors(DirOf(Join(slot, rel))))

WorkingTreeLosesEntry(names) ==
  \E slot \in {getProjectPath(n) : n \in names}, rel \in Paths :
    /\ fs[Join(slot, rel)].kind # "none"
    /\ Outside([fs EXCEPT ![Join(slot, rel)] = NoEntry], dirs)

Next ==
  \/ InitAction(OneProject)
  \/ AddAction
  \/ RemoveAction
  \/ ReconcileAction
  \/ UserWritesFile
  \/ UserDeletesFile
  \/ WorkingTreeGetsFile(OneProject)
  \/ WorkingTreeGetsLink(OneProject)
  \/ WorkingTreeLosesEntry(OneProject)

Spec == Init /\ [][Next]_vars

\* ------------------ the same commands with the move-and-link SymlinkManager

MoveInitAction(names) ==
  \E name \in names, root \in Roots, proceed \in BOOLEAN :
    Apply(initCommand(MoveAndLink, World, registry, name, root, proceed))

MoveAddAction ==
  \E root \in Roots, files \in FileArgs, all \in BOOLEAN :
    /\ all => files = <<>>
    /\ Apply(addCommand(MoveAndLink, World, registry, root, files, all))

MoveReconcileAction ==
  \E i \in 1..Len(registry) :
    LET project == registry[i]
        r == updateMoved(World, project, getProjectPath(project.name))
    IN  Apply(Outcome(r.w, registry,
              [Done("reconcile", project.name, project.path, IF r.threw THEN 1 ELSE 0)
                 EXCEPT !.added = r.added, !.removed = r.removed, !.updated = r.updated,
                        !.warned = r.warned,
                        !.repeat = (last.op = "reconcile" /\ last.name = project.name)]))

\* removeLinks: removeSymlinks(slot of project, project) for a registered
\* project.
MoveRemoveLinksAction ==
  \E i \in 1..Len(registry) :
    LET project == registry[i]
        r == restoreAndRemove(World, getProjectPath(project.name), project)
    IN  Apply(Outcome(r.w, registry,
              [Done("removeLinks", project.name, project.path, 0) EXCEPT !.removed = r.removed]))

NextMoveAndLink ==
  \/ MoveInitAction(OneProject)
  \/ MoveAddAction
  \/ MoveReconcileAction
  \/ MoveRemoveLinksAction
  \/ UserWritesFile
  \/ UserDeletesFile
  \/ WorkingTreeGetsFile(OneProject)
  \/ WorkingTreeGetsLink(OneProject)
  \/ WorkingTreeLosesEntry(OneProject)

SpecMoveAndLink == Init /\ [][NextMoveAndLink]_vars

\* ------------------------------------------------------------ GitForwarder
\* One forwarded invocation: GitForwarder.forward(args).  An argument is a
\* record [dashes, word]: the number of leading "-" (at most two) and the
\* rest of the string, so that startsWith("-") is computed, not looked up.

\* Most arguments that follow the command name in a forwarded invocation.
MaxExtraArgs == 2

Arg(dashes, word) == [dashes |-> dashes, word |-> word]

\* arg.startsWith("-")
startsWithDash(arg) == arg.dashes > 0

\* The literal "--".
DoubleDash == Arg(2, "")

\* buildGitArgs' projectScopedCommands.
projectScopedCommands ==
  {Arg(0, c) : c \in {"status", "diff", "log", "show", "blame", "ls-files"}}

\* The case labels of buildGitArgs' switch.
switchCases ==
  {Arg(0, c) : c \in {"add", "commit", "push", "pull", "fetch", "branch", "checkout",
                      "merge", "rebase", "reset", "stash", "tag"}}

\* A command the switch has no case for and that is not project-scoped.
OtherCommand == Arg(0, "grep")

GitCommands == projectScopedCommands \cup switchCases \cup {OtherCommand}

\* What can follow the command name: "--", a flag, a path.
ExtraArgs == {DoubleDash, Arg(2, "stat"), Arg(0, "CLAUDE.local.md")}

\* The argument vectors tried: none at all, or a command and up to
\* MaxExtraArgs more.
ForwardArgs ==
  {<<>>} \cup {<<c>> \o rest : c \in GitCommands, rest \in SeqsUpTo(ExtraArgs, MaxExtraArgs)}

\* detectCurrentProject's `undefined`.
NoProject == ""

\* What ProjectDetector.detectCurrentProject gives in the working directory:
\* it throws (not inside a git repository), or returns the git root and the
\* sanitized repository name.
NotARepository == [ok |-> FALSE, root |-> "", suggestedName |-> ""]

Detections ==
  {NotARepository} \cup
    {[ok |-> TRUE, root |-> r, suggestedName |-> n] :
       r \in Roots \cup {Elsewhere}, n \in ProjectNames \cup {"old"}}

\* GitForwarder.detectCurrentProject: the first project whose path is the
\* git root, else the project named like the repository, else undefined.
detectCurrentProject(reg, detected) ==
  IF ~detected.ok THEN NoProject
  ELSE IF FindByPath(reg, detected.root) # 0 THEN reg[FindByPath(reg, detected.root)].name
  ELSE IF projectExists(reg, detected.suggestedName) THEN detected.suggestedName
  ELSE NoProject

\* The mutant of buildGitArgs that scopes every command once a project is
\* known.
buildGitArgsScopeAll(command, originalArgs, currentProject) ==
  IF currentProject # NoProject
    THEN [args |-> originalArgs \o <<DoubleDash, Arg(0, "projects/" \o currentProject)>>,
          cwd |-> SyncRepoPath]
    ELSE [args |-> originalArgs, cwd |-> SyncRepoPath]

\* The mutant of buildGitArgs that appends the project path without "--".
buildGitArgsNoSeparator(command, originalArgs, currentProject) ==
  IF command \in projectScopedCommands /\ currentProject # NoProject
    THEN [args |-> Append(originalArgs, Arg(0, "projects/" \o currentProject)),
          cwd |-> SyncRepoPath]
    ELSE [args |-> originalArgs, cwd |-> SyncRepoPath]

\* The mutant of buildGitArgs that runs a scoped command inside the slot.
buildGitArgsInSlot(command, originalArgs, currentProject) ==
  IF command \in projectScopedCommands /\ currentProject # NoProject
    THEN [args |-> originalArgs, cwd |-> getProjectPath(currentProject)]
    ELSE [args |-> originalArgs, cwd |-> SyncRepoPath]

\* GitForwarder.buildGitArgs(command, originalArgs, currentProject)
buildGitArgs(command, originalArgs, currentProject) ==
  LET hasDoubleDash == \E i \in 1..Len(originalArgs) : originalArgs[i] = DoubleDash
      hasPathArgs == Len(originalArgs) > 1 /\ ~startsWithDash(originalArgs[2])
  IN  IF command \in switchCases
        THEN [args |-> originalArgs, cwd |-> SyncRepoPath]
      ELSE IF /\ command \in projectScopedCommands
              /\ currentProject # NoProject
              /\ ~hasDoubleDash
              /\ ~hasPathArgs
        THEN [args |-> originalArgs \o <<DoubleDash, Arg(0, "projects/" \o currentProject)>>,
              cwd |-> SyncRepoPath]
        ELSE [args |-> originalArgs, cwd |-> SyncRepoPath]

\* The exit codes git is made to end with.
GitExitCodes == {0, 1, 128}

\* runGitCommand(args, {cwd, throwOnError: false}) for a git that ends with
\* gitCode.
runGitCommand(gitCode) == [success |-> gitCode = 0, code |-> gitCode]

\* The mutant of exitStatus that reports every failure as 1.
exitStatusOne(result) == IF ~result.success THEN 1 ELSE 0

\* forward's end: Deno.exit(result.code) when git failed, else the process
\* ends normally.
exitStatus(result) == IF ~result.success THEN result.code ELSE 0

\* GitForwarder.forward(args), in a working directory where the detector
\* gives `detected`, with a git that ends with gitCode.
forward(reg, args, detected, gitCode) ==
  LET args1 == IF Len(args) = 0 THEN <<Arg(0, "status")>> ELSE args
      command == args1[1]
      currentProject == detectCurrentProject(reg, detected)
      gitArgs == buildGitArgs(command, args1, currentProject)
      result == runGitCommand(gitCode)
  IN  [op |-> "forward", given |-> args, detected |-> detected,
       project |-> currentProject, args |-> gitArgs.args, cwd |-> gitArgs.cwd,
       gitCode |-> gitCode, code |-> exitStatus(result)]

\* The registries the forwarder is run against: up to two projects under
\* distinct names, as init leaves them.
ForwardRegistries ==
  {<<>>} \cup {<<Project(n, r, <<>>)>> : n \in ProjectNames, r \in Roots}
         \cup {reg \in {<<Project(n, r, <<>>), Project(m, q, <<>>)>> :
                           n \in ProjectNames, m \in ProjectNames, r \in Roots, q \in Roots} :
                 reg[1].name # reg[2].name}

InitForward ==
  /\ fs = [loc \in Locs |-> NoEntry]
  /\ dirs = {RepoRootDir, ProjectsDir}
  /\ registry \in ForwardRegistries
  /\ last = NoLast
  /\ envSteps = 0
  /\ procs = <<>>

\* One process: it forwards once and exits.
ForwardAction ==
  /\ last.op = "none"
  /\ \E args \in ForwardArgs, detected \in Detections, gitCode \in GitExitCodes :
       last' = forward(registry, args, detected, gitCode)
  /\ UNCHANGED <<fs, dirs, registry, envSteps, procs>>

NextForward == ForwardAction

SpecForward == InitForward /\ [][NextForward]_vars

\* ------------------------------------------- FileScanner, any pattern lists
\* FileScanner(filePatterns, excludePatterns).scan(rootPath).  A relative
\* path is a sequence of segments and a segment a record [stem, ext]
\* ("debug.log" is [stem |-> "debug", ext |-> "log"]); a pattern is a path
\* whose stems may be "*".

\* Most patterns in filePatterns.
MaxPatterns == 2

Seg(stem, ext) == [stem |-> stem, ext |-> ext]

Star == "*"

\* The files a scanned root can hold.
LocalMd == <<Seg("CLAUDE.local", "md")>>

BuildMd == <<Seg("build", ""), Seg("CLAUDE.local", "md")>>

DebugLog == <<Seg("debug", "log")>>

CommandMd == <<Seg(".claude", ""), Seg("commands", ""), Seg("a", "md")>>

\* walk(rootPath) visits them in this order.
WalkOrder == <<CommandMd, LocalMd, BuildMd, DebugLog>>

ScanPaths == Range(WalkOrder)

ScanLocs == {Join(r, path) : r \in Roots, path \in ScanPaths}

\* The include patterns tried: exact literals and globs.
IncludePatterns ==
  {LocalMd, BuildMd, DebugLog,
   <<Seg(Star, "md")>>,
   <<Seg(".claude", ""), Seg("commands", ""), Seg(Star, "md")>>,
   <<Seg("build", ""), Seg(Star, "md")>>}

\* The exclude lists tried: none, one directory name, and a directory name
\* with "*.log" as in the default excludePatterns.
ExcludeLists == {<<>>, <<<<Seg("build", "")>>>>, <<<<Seg("build", "")>>, <<Seg(Star, "log")>>>>}

\* pattern.includes("*")
includesStar(pattern) == \E i \in 1..Len(pattern) : pattern[i].stem = Star

\* globToRegExp(pattern).test(path): segment by segment, "*" standing for
\* any stem; it never crosses a "/".
regexTest(pattern, path) ==
  /\ Len(pattern) = Len(path)
  /\ \A i \in 1..Len(pattern) :
       /\ pattern[i].stem = Star \/ pattern[i].stem = path[i].stem
       /\ pattern[i].ext = path[i].ext

\* scan's shouldExclude for a walked relativePath.
shouldExclude(excludePatterns, relativePath) ==
  \E e \in 1..Len(excludePatterns) :
    \/ regexTest(excludePatterns[e], relativePath)
    \/ \E k \in 1..Len(relativePath) : regexTest(excludePatterns[e], <<relativePath[k]>>)

\* Deno.stat(fullPath) succeeds and isFile.
isFile(f, loc) == loc \in DOMAIN f /\ f[loc].kind = "file"

\* scan, the loop over exactFiles from the i-th on.
RECURSIVE exactLoop(_, _, _, _, _)
exactLoop(f, rootPath, exactFiles, i, files) ==
  IF i > Len(exactFiles) THEN files
  ELSE exactLoop(f, rootPath, exactFiles, i + 1,
                 IF isFile(f, Join(rootPath, exactFiles[i]))
                   THEN Append(files, ClaudeFile(rootPath, exactFiles[i]))
                   ELSE files)

\* scan, the loop over walk(rootPath) from the i-th entry on.
RECURSIVE walkLoop(_, _, _, _, _, _)
walkLoop(f, rootPath, filePatterns, excludePatterns, i, files) ==
  IF i > Len(WalkOrder) THEN files
  ELSE LET relativePath == WalkOrder[i]
           entry == Join(rootPath, relativePath)
           shouldInclude == \E p \in 1..Len(filePatterns) : regexTest(filePatterns[p], relativePath)
       IN  walkLoop(f, rootPath, filePatterns, excludePatterns, i + 1,
             IF /\ isFile(f, entry)
                /\ ~shouldExclude(excludePatterns, relativePath)
                /\ shouldInclude
                /\ ~\E k \in 1..Len(files) : files[k].path = entry
               THEN Append(files, ClaudeFile(rootPath, relativePath))
               ELSE files)

\* FileScanner.scan(rootPath) of a scanner built with the two pattern lists.
scanPatterns(f, rootPath, filePatterns, excludePatterns) ==
  LET exactFiles == SelectSeq(filePatterns, LAMBDA p : ~includesStar(p))
  IN  walkLoop(f, rootPath, filePatterns, excludePatterns, 1,
               exactLoop(f, rootPath, exactFiles, 1, <<>>))

\* A root with some of the files, and a scanner constructed with pattern
\* lists.
InitScan ==
  /\ \E present \in SUBSET ScanLocs :
       fs = [loc \in ScanLocs |-> IF loc \in present THEN RegularFile(loc) ELSE NoEntry]
  /\ dirs = {RepoRootDir, ProjectsDir}
  /\ registry = <<>>
  /\ \E filePatterns \in SeqsUpTo(IncludePatterns, MaxPatterns), excludePatterns \in ExcludeLists :
       last = [op |-> "FileScanner", filePatterns |-> filePatterns,
               excludePatterns |-> excludePatterns]
  /\ envSteps = 0
  /\ procs = <<>>

ScanAction ==
  /\ last.op = "FileScanner"
  /\ \E rootPath \in Roots :
       last' = [op |-> "scan", rootPath |-> rootPath, filePatterns |-> last.filePatterns,
                excludePatterns |-> last.excludePatterns,
                files |-> scanPatterns(fs, rootPath, last.filePatterns, last.excludePatterns)]
  /\ UNCHANGED <<fs, dirs, registry, envSteps, procs>>

NextScan == ScanAction

SpecScan == InitScan /\ [][NextScan]_vars

\* ------------------------------------------------------ sanitizeProjectName
\* sanitizeProjectName(name) on strings written as sequences of characters.

\* Longest name sanitized.
MaxNameLen == 4

\* The characters tried: a lowercase letter, an uppercase letter, a digit,
\* the two characters the class keeps besides, and one it does not.
NameChars == {"a", "A", "1", "-", "_", "!"}

NameInputs == SeqsUpTo(NameChars, MaxNameLen)

\* String.prototype.toLowerCase, per character.
toLowerCase(name) == [i \in 1..Len(name) |-> IF name[i] = "A" THEN "a" ELSE name[i]]

\* The class [a-z0-9-_].
Allowed == {"a", "1", "-", "_"}

\* .replace(/[^a-z0-9-_]/g, "-")
replaceInvalid(name) == [i \in 1..Len(name) |-> IF name[i] \in Allowed THEN name[i] ELSE "-"]

\* .replace(/-+/g, "-"): every run of "-" becomes one "-".
RECURSIVE collapseDashes(_)
collapseDashes(name) ==
  IF Len(name) < 2 THEN name
  ELSE IF name[1] = "-" /\ name[2] = "-" THEN collapseDashes(Tail(name))
  ELSE <<name[1]>> \o collapseDashes(Tail(name))

\* .replace(/^-|-$/g, ""): one "-" at the start and one at the end go.
trimDashes(name) ==
  LET front == IF name # <<>> /\ name[1] = "-" THEN Tail(name) ELSE name
  IN  IF front # <<>> /\ front[Len(front)] = "-" THEN SubSeq(front, 1, Len(front) - 1)
      ELSE front

sanitizeProjectName(name) ==
  trimDashes(collapseDashes(replaceInvalid(toLowerCase(name))))

InitSanitize ==
  /\ fs = [loc \in Locs |-> NoEntry]
  /\ dirs = {RepoRootDir, ProjectsDir}
  /\ registry = <<>>
  /\ \E name \in NameInputs : last = [op |-> "repoName", name |-> name]
  /\ envSteps = 0
  /\ procs = <<>>

\* One call of sanitizeProjectName on the drawn name.
SanitizeAction ==
  /\ last.op = "repoName"
  /\ last' = [op |-> "sanitizeProjectName", name |-> last.name,
              result |-> sanitizeProjectName(last.name)]
  /\ UNCHANGED <<fs, dirs, registry, envSteps, procs>>

NextSanitize == SanitizeAction

SpecSanitize == InitSanitize /\ [][NextSanitize]_vars

\* ------------------------------- init and remove under two project names
\* The same commands, run from the one git repository under either name.

NextTwoNames ==
  \/ InitAction(ProjectNames)
  \/ RemoveAction

SpecTwoNames == Init /\ [][NextTwoNames]_vars

\* ------------ ConfigManager, two invocations with load and save interleaved
\* addProject, updateProject and removeProject each are loadProjects, a
\* change of the loaded registry, saveProjects; nothing locks projects.yaml
\* in between.  Two processes run one such call each, on different projects.

Invocations == {1, 2}

\* The project invocation k changes, and the git root it runs in.
ProjectOf(k) == IF k = 1 THEN "p1" ELSE "p2"

RootOf(k) == IF k = 1 THEN "/r1" ELSE Elsewhere

RegistryCalls == {"addProject", "updateProject", "removeProject"}

\* The record invocation k passes: the project with one tracked file.
NewRecord(k) == Project(ProjectOf(k), RootOf(k), <<"CLAUDE.local.md">>)

\* projects.yaml before the two invocations: each project registered, with
\* nothing tracked, or not.
StartRegistries ==
  {SelectSeq(<<Project(ProjectOf(1), RootOf(1), <<>>), Project(ProjectOf(2), RootOf(2), <<>>)>>,
             LAMBDA p : p.name \in present) : present \in SUBSET ProjectNames}

InitRegistry ==
  /\ fs = [loc \in Locs |-> NoEntry]
  /\ dirs = {RepoRootDir, ProjectsDir}
  /\ registry \in StartRegistries
  /\ last = NoLast
  /\ envSteps = 0
  /\ \E c1 \in RegistryCalls, c2 \in RegistryCalls :
       procs = [k \in Invocations |->
                  [pc |-> "start", call |-> IF k = 1 THEN c1 ELSE c2,
                   loaded |-> <<>>, threw |-> FALSE]]

\* const registry = await this.loadProjects()
LoadStep(k) ==
  /\ procs[k].pc = "start"
  /\ procs' = [procs EXCEPT ![k].pc = "loaded", ![k].loaded = registry]
  /\ UNCHANGED <<fs, dirs, registry, last, envSteps>>

\* The change of the loaded registry and await this.saveProjects(registry);
\* updateProject throws ConfigError, saving nothing, when the loaded registry
\* has no record of the project.
SaveStep(k) ==
  LET loaded == procs[k].loaded
      name == ProjectOf(k)
      missing == procs[k].call = "updateProject" /\ ~projectExists(loaded, name)
  IN  /\ procs[k].pc = "loaded"
      /\ registry' =
           CASE missing -> registry
             [] procs[k].call = "addProject" -> addProject(loaded, name, NewRecord(k))
             [] procs[k].call = "updateProject" -> updateProject(loaded, name, NewRecord(k))
             [] OTHER -> removeProject(loaded, name)
      /\ procs' = [procs EXCEPT ![k].pc = "done", ![k].threw = missing]
      /\ UNCHANGED <<fs, dirs, last, envSteps>>

NextRegistry ==
  \E k \in Invocations : LoadStep(k) \/ SaveStep(k)

SpecRegistry == InitRegistry /\ [][NextRegistry]_vars

\* ----------------------- createSymlinks step by step, with a process stop
\* init up to createSymlinks, then createSymlinks one filesystem call at a
\* time, for either revision of SymlinkManager; the process can stop between
\* any two calls.

\* The filesystem calls of one iteration of createSymlinks' loop, in order.
createSteps(manager) ==
  IF manager = MoveAndLink
    THEN <<"ensureDir", "remove", "copyFile", "removeOriginal", "ensureSymlink">>
    ELSE <<"ensureDir", "remove", "ensureSymlink">>

\* One filesystem call of the iteration for `file`.
createStep(manager, w, file, syncProjectDir, step) ==
  LET inSlot == Join(syncProjectDir, file.relativePath)
  IN  CASE step = "ensureDir" -> [w |-> ensureDir(w, DirOf(inSlot)), ok |-> TRUE]
        [] step = "remove" ->
             [w |-> IF manager = MoveAndLink \/ w.fs[inSlot].kind = "link"
                      THEN RemoveEntry(w, inSlot) ELSE w,
              ok |-> TRUE]
        [] step = "copyFile" -> copyFile(w, file.path, inSlot)
        [] step = "removeOriginal" -> [w |-> RemoveEntry(w, file.path), ok |-> TRUE]
        [] OTHER ->
             IF manager = MoveAndLink THEN ensureSymlink(w, inSlot, file.path)
             ELSE ensureSymlink(w, file.path, inSlot)

\* initCommand up to the call of createSymlinks: scan, addProject (the
\* registry is saved), ensureProjectDir.
StartInit(names) ==
  \E manager \in {LinkInRepository, MoveAndLink}, name \in names, root \in Roots :
    LET files == scan(World, root)
        w1 == ensureDir(World, Join(getProjectPath(name), ""))
    IN  /\ procs = <<>>
        /\ ~projectExists(registry, name)
        /\ registry' = addProject(registry, name, Project(name, root, RelPaths(files)))
        /\ dirs' = IF Len(files) > 0 THEN w1.dirs ELSE dirs
        /\ procs' = <<[pc |-> IF Len(files) > 0 THEN "createSymlinks" ELSE "done",
                       manager |-> manager, name |-> name, root |-> root,
                       files |-> files, i |-> 1, step |-> 1]>>
        /\ UNCHANGED <<fs, last, envSteps>>

\* The next filesystem call of createSymlinks; a call that throws ends the
\* process with SymlinkError.
CreateStepAction ==
  /\ procs # <<>>
  /\ procs[1].pc = "createSymlinks"
  /\ LET p == procs[1]
         steps == createSteps(p.manager)
         r == createStep(p.manager, World, p.files[p.i], getProjectPath(p.name), steps[p.step])
         lastStep == p.step = Len(steps)
     IN  /\ fs' = r.w.fs
         /\ dirs' = r.w.dirs
         /\ procs' = <<[p EXCEPT !.pc = IF ~r.ok THEN "failed"
                                        ELSE IF lastStep /\ p.i = Len(p.files) THEN "done"
                                        ELSE "createSymlinks",
                                 !.i = IF r.ok /\ lastStep THEN p.i + 1 ELSE p.i,
                                 !.step = IF ~r.ok THEN p.step
                                          ELSE IF lastStep THEN 1 ELSE p.step + 1]>>
  /\ UNCHANGED <<registry, last, envSteps>>

\* The process stops (kill, power loss) between two filesystem calls.
CrashAction ==
  /\ procs # <<>>
  /\ procs[1].pc = "createSymlinks"
  /\ procs' = <<[procs[1] EXCEPT !.pc = "stopped"]>>
  /\ UNCHANGED <<fs, dirs, registry, last, envSteps>>

NextCrash ==
  \/ StartInit(ProjectNames)
  \/ CreateStepAction
  \/ CrashAction

SpecCrash == Init /\ [][NextCrash]_vars

\* -------------------------------------------------------------- properties

\* The commands of the tool, as last.op names them.
Commands == {"init", "add", "remove"}

\* The trackedFiles the registry `reg` stores for project `name`.
TrackedIn(reg, name) ==
  IF projectExists(reg, name) THEN Range(reg[IndexOf(reg, name)].trackedFiles) ELSE {}

\* Every link of every slot is at a path the registry tracks for that slot's
\* project.
NoUntrackedLinks(f, reg) ==
  \A n \in ProjectNames : \A p \in Paths :
    f[Join(getProjectPath(n), p)].kind = "link" => p \in TrackedIn(reg, n)

\* C1: reconcile never deletes or replaces a slot entry that is not a link:
\* every regular file that is in a slot when reconcile starts is there,
\* unchanged, when it returns.
C1_ReconcileKeepsNonLinks ==
  [][last'.op = "reconcile" =>
       \A loc \in Locs :
         (loc.base \in Slots /\ fs[loc].kind = "file") => fs'[loc] = fs[loc]]_vars

\* C2: a reconcile that directly follows a reconcile of the same project
\* returns added, removed and updated all empty and changes nothing on the
\* filesystem.
C2_ReconcileIdempotent ==
  [][(last.op = "reconcile" /\ last'.op = "reconcile" /\ last'.name = last.name) =>
       /\ last'.added = <<>>
       /\ last'.removed = <<>>
       /\ last'.updated = <<>>
       /\ fs' = fs
       /\ dirs' = dirs]_vars

\* A second reconcile in a row has returned, for a project that tracks files
\* and has a link in its slot.
C2_SecondReconcileDone ==
  /\ last.op = "reconcile"
  /\ last.repeat
  /\ TrackedIn(registry, last.name) # {}
  /\ \E p \in Paths : fs[Join(getProjectPath(last.name), p)].kind = "link"

\* C3: after an init, add or remove command that exits with status 0, every
\* path in the trackedFiles of every registered project is a link in that
\* project's slot.
C3_TrackedPathsAreLinked ==
  (last.op \in Commands /\ last.code = 0) =>
    \A i \in 1..Len(registry) : \A p \in Range(registry[i].trackedFiles) :
      fs[Join(getProjectPath(registry[i].name), p)].kind = "link"

\* C4: an init, add or remove command, however it exits, leaves no link in a
\* slot at a path the registry does not track for that project: started where
\* every link of every slot is tracked, it ends where every link is tracked.
C4_CommandsLeaveNoUntrackedLink ==
  [][(last'.op \in Commands /\ NoUntrackedLinks(fs, registry)) =>
       NoUntrackedLinks(fs', registry')]_vars

\* C5: no init, add, remove or reconcile creates, modifies, moves or deletes
\* an entry under a project's rootPath.
C5_CommandsLeaveRootsAlone ==
  [][last'.op \in Commands \cup {"reconcile"} =>
       \A loc \in Locs : loc.base \in Roots => fs'[loc] = fs[loc]]_vars

\* C6: when the slot holds links at paths that are not in trackedFiles,
\* reconcile deletes exactly those links and returns exactly their paths in
\* removed; a link at a tracked path that records the expected target, and a
\* regular file, are left as they were.
C6_OrphanCleanupExact ==
  [][last'.op = "reconcile" =>
       LET slot == getProjectPath(last'.name)
           tracked == TrackedIn(registry, last'.name)
           links == {p \in Paths : fs[Join(slot, p)].kind = "link"}
           orphans == links \ tracked
           deleted == {p \in links : fs'[Join(slot, p)].kind # "link"}
       IN  orphans # {} =>
             /\ deleted = orphans
             /\ Range(last'.removed) = orphans
             /\ \A p \in Paths :
                  (\/ fs[Join(slot, p)].kind = "file"
                   \/ (p \in tracked /\ fs[Join(slot, p)] = Symlink(Join(last'.root, p))))
                    => fs'[Join(slot, p)] = fs[Join(slot, p)]]_vars

\* C7: after reconcile, every tracked path whose source file exists and whose
\* slot entry was missing, or was a link recording another target, is a link
\* recording join(rootPath, path); added holds exactly the formerly missing
\* ones and updated exactly the formerly stale ones; a missing path whose
\* source file does not exist is not created and is reported nowhere.
C7_ReconcileRepairsTracked ==
  [][last'.op = "reconcile" =>
       LET slot == getProjectPath(last'.name)
           root == last'.root
           tracked == TrackedIn(registry, last'.name)
           sourceExists(p) == fs[Join(root, p)].kind # "none"
           missing == {p \in tracked : fs[Join(slot, p)].kind = "none" /\ sourceExists(p)}
           stale == {p \in tracked : /\ fs[Join(slot, p)].kind = "link"
                                     /\ fs[Join(slot, p)].target # Join(root, p)
                                     /\ sourceExists(p)}
           reported == Range(last'.added) \cup Range(last'.removed) \cup Range(last'.updated)
       IN  /\ \A p \in missing \cup stale : fs'[Join(slot, p)] = Symlink(Join(root, p))
           /\ Range(last'.added) = missing
           /\ Range(last'.updated) = stale
           /\ \A p \in tracked :
                (fs[Join(slot, p)].kind = "none" /\ ~sourceExists(p)) =>
                  (fs'[Join(slot, p)].kind = "none" /\ p \notin reported)]_vars

\* A reconcile has returned that created a missing link and replaced a stale
\* one.
C7_AddedAndUpdated ==
  /\ last.op = "reconcile"
  /\ last.added # <<>>
  /\ last.updated # <<>>

\* C8: createLinks removes what occupies a destination only when it is a
\* link: a regular file at the destination of a file of the batch is left as
\* it was, and createLinks raises an error that names such a path.
C8_CreateKeepsNonLinkDestination ==
  [][last'.op \in {"init", "add"} =>
       LET slot == getProjectPath(last'.name)
           occupied == {p \in Range(last'.batch) : fs[Join(slot, p)].kind = "file"}
       IN  occupied # {} =>
             /\ \A p \in occupied : fs'[Join(slot, p)] = fs[Join(slot, p)]
             /\ last'.err \in occupied]_vars

\* C9: when link creation fails for one file of an add of several files,
\* every file of the batch whose destination is not occupied by a regular
\* file still has its link and is in trackedFiles.
C9_BatchContinuesPastFailure ==
  (last.op = "add" /\ last.err # "" /\ Len(last.batch) > 1) =>
    \A p \in Range(last.batch) :
      fs[Join(getProjectPath(last.name), p)].kind # "file" =>
        /\ fs[Join(getProjectPath(last.name), p)].kind = "link"
        /\ p \in TrackedIn(registry, last.name)

\* C10: for every relative path p that createLinks(files, slot) returned,
\* verifyLink(join(slot, p), the file's absolute path) is true right after.
C10_CreatedLinksVerify ==
  (last.op \in {"init", "add"} /\ last.code = 0) =>
    \A p \in Range(last.created) :
      verifySymlink(World, Join(getProjectPath(last.name), p), Join(last.root, p))

\* createLinks has returned both paths of a batch of two.
C10_TwoLinksCreated ==
  /\ last.op \in {"init", "add"}
  /\ last.code = 0
  /\ Len(last.created) = 2

\* C11: after removeLinks on a project slot no directory below the slot is
\* left empty by it, at any depth: a directory below the slot that is empty
\* once `remove <files>` has run removeSymlinks was already empty before.
C11_NoDirectoryLeftEmpty ==
  [][(last'.op = "remove" /\ last'.batch # <<>>) =>
       \A d \in dirs' :
         (/\ d.base = getProjectPath(last'.name)
          /\ d.rel # ""
          /\ readDir([fs |-> fs', dirs |-> dirs'], d) = {})
           => readDir(World, d) = {}]_vars

\* C20: after any sequence of init, add and remove commands no project's
\* trackedFiles holds the same relative path twice.
C20_TrackedFilesUnique ==
  \A i \in 1..Len(registry) :
    \A j, k \in 1..Len(registry[i].trackedFiles) :
      registry[i].trackedFiles[j] = registry[i].trackedFiles[k] => j = k

\* The commands claimed to be forwarded verbatim.
ClaimedRepositoryWide ==
  {Arg(0, c) : c \in {"commit", "push", "pull", "fetch", "branch", "checkout", "merge",
                      "rebase", "reset", "stash", "tag", "add"}}

\* The commands claimed to be narrowed to the current project.
ClaimedProjectScoped ==
  {Arg(0, c) : c \in {"status", "diff", "log", "show", "blame", "ls-files"}}

\* C12: for a command in {commit, push, pull, fetch, branch, checkout, merge,
\* rebase, reset, stash, tag, add}, whatever the arguments and whether or not
\* a current project is known, the plan's args are the given arguments.
C12_RepositoryWideVerbatim ==
  (last.op = "forward" /\ Len(last.given) > 0 /\ last.given[1] \in ClaimedRepositoryWide) =>
    last.args = last.given

\* A repository-wide command with further arguments was forwarded while a
\* current project was known.
C12_VerbatimWithProject ==
  /\ last.op = "forward"
  /\ Len(last.given) > 1
  /\ last.given[1] \in ClaimedRepositoryWide
  /\ last.project # NoProject

\* C13: for a command in {status, diff, log, show, blame, ls-files}, with a
\* current project P known, no "--" among the arguments and only flags after
\* the command name, the plan's args are the given arguments, then "--",
\* then projects/P.
C13_ScopedGetsPathFilter ==
  (/\ last.op = "forward"
   /\ Len(last.given) > 0
   /\ last.given[1] \in ClaimedProjectScoped
   /\ last.project # NoProject
   /\ \A i \in 2..Len(last.given) :
        last.given[i] # DoubleDash /\ startsWithDash(last.given[i]))
    => last.args = last.given \o <<DoubleDash, Arg(0, "projects/" \o last.project)>>

\* A project-scoped command followed by flags only was forwarded with a
\* current project known.
C13_ScopedWithFlags ==
  /\ last.op = "forward"
  /\ Len(last.given) > 2
  /\ last.given[1] \in ClaimedProjectScoped
  /\ last.project # NoProject
  /\ \A i \in 2..Len(last.given) :
       last.given[i] # DoubleDash /\ startsWithDash(last.given[i])

\* C14: for a project-scoped command with a current project known, when the
\* arguments hold a "--", or hold anywhere after the command name an
\* argument that does not start with "-", the plan's args are the given
\* arguments.
C14_ExplicitPathsUnchanged ==
  (/\ last.op = "forward"
   /\ Len(last.given) > 0
   /\ last.given[1] \in ClaimedProjectScoped
   /\ last.project # NoProject
   /\ \E i \in 2..Len(last.given) :
        last.given[i] = DoubleDash \/ ~startsWithDash(last.given[i]))
    => last.args = last.given

\* C15: whatever the command, the arguments and the project context, the
\* plan's working directory is the centralized repository's root, which is
\* neither the detected git root nor a project's rootPath.
C15_RunsInRepositoryRoot ==
  last.op = "forward" =>
    /\ last.cwd = SyncRepoPath
    /\ last.cwd # last.detected.root
    /\ \A i \in 1..Len(registry) : last.cwd # registry[i].path

\* A project-scoped command was forwarded from inside a registered project.
C15_ForwardedFromProject ==
  /\ last.op = "forward"
  /\ last.project # NoProject
  /\ Len(last.given) > 0
  /\ last.given[1] \in ClaimedProjectScoped
  /\ \E i \in 1..Len(registry) : registry[i].path = last.detected.root

\* C16: a project is reported as current exactly when the git root of the
\* working directory is that registered project's rootPath; when no
\* registered project has that rootPath none is reported and the arguments
\* are forwarded without a path filter.
C16_CurrentProjectByRootOnly ==
  last.op = "forward" =>
    LET atRoot == {i \in 1..Len(registry) :
                     last.detected.ok /\ registry[i].path = last.detected.root}
    IN  /\ last.project # NoProject =>
             \E i \in atRoot : registry[i].name = last.project
        /\ atRoot # {} => last.project # NoProject
        /\ atRoot = {} =>
             /\ last.project = NoProject
             /\ Len(last.given) > 0 => last.args = last.given

\* C17: when the git subprocess has run, the tool's exit status is git's exit
\* code: 0 when git exits 0, git's own code otherwise.
C17_ExitCodePropagated ==
  last.op = "forward" => last.code = last.gitCode

\* A forwarded git ended with a code other than 0 and 1.
C17_GitFailedWithOwnCode ==
  /\ last.op = "forward"
  /\ last.gitCode \notin {0, 1}

\* C18: scan returns no file whose relative path, or one segment of it,
\* matches an exclude pattern, whatever the include patterns are.
C18_ScanReturnsNoExcluded ==
  last.op = "scan" =>
    \A k \in 1..Len(last.files) :
      \A e \in 1..Len(last.excludePatterns) :
        /\ ~regexTest(last.excludePatterns[e], last.files[k].relativePath)
        /\ \A j \in 1..Len(last.files[k].relativePath) :
             ~regexTest(last.excludePatterns[e], <<last.files[k].relativePath[j]>>)

\* C19: for every filesystem state and every list of include patterns, scan
\* returns no two records with the same relative path.
C19_ScanReturnsNoDuplicate ==
  last.op = "scan" =>
    \A j, k \in 1..Len(last.files) :
      last.files[j].relativePath = last.files[k].relativePath => j = k

\* C21: for every input, sanitizeProjectName returns a string of lowercase
\* letters, digits, "-" and "_" only, that neither starts nor ends with a
\* separator and has no two separators next to each other, "-" and "_" both
\* being separators.
C21_SanitizedNameWellFormed ==
  last.op = "sanitizeProjectName" =>
    LET out == last.result
        Separators == {"-", "_"}
    IN  /\ \A i \in 1..Len(out) : out[i] \in {"a", "1", "-", "_"}
        /\ out # <<>> => (out[1] \notin Separators /\ out[Len(out)] \notin Separators)
        /\ \A i \in 1..(Len(out) - 1) : ~(out[i] \in Separators /\ out[i + 1] \in Separators)

\* C22: init with a project name that is already in the registry exits with
\* status 1 (ProjectAlreadyExists) and leaves the registry, hence the
\* project's record and trackedFiles, and every entry of its slot unchanged.
C22_InitExistingNameRefused ==
  [][(last'.op = "init" /\ \E i \in 1..Len(registry) : registry[i].name = last'.name) =>
       /\ last'.code = 1
       /\ registry' = registry
       /\ \A p \in Paths :
            fs'[Join(getProjectPath(last'.name), p)] = fs[Join(getProjectPath(last'.name), p)]]_vars

\* An init was refused for a name whose project tracks a file that is linked
\* in its slot, while the root holds a Claude file it does not track.
C22_RefusedOverLinkedProject ==
  /\ last.op = "init"
  /\ last.code = 1
  /\ last.err = ""
  /\ \E p \in TrackedIn(registry, last.name) : fs[Join(getProjectPath(last.name), p)].kind = "link"
  /\ \E p \in Paths \ TrackedIn(registry, last.name) : fs[Join(last.root, p)].kind = "file"

\* C23: `remove f1 .. fn` of tracked files takes from the slot only the links
\* at f1 .. fn and from trackedFiles only those paths: the links at the
\* project's other tracked paths, and the links of other projects' slots, are
\* as they were.
C23_RemoveFilesFrame ==
  [][(last'.op = "remove" /\ last'.batch # <<>>) =>
       LET slot == getProjectPath(last'.name)
           removed == Range(last'.batch)
       IN  /\ TrackedIn(registry', last'.name) = TrackedIn(registry, last'.name) \ removed
           /\ \A p \in TrackedIn(registry, last'.name) \ removed :
                fs[Join(slot, p)].kind = "link" => fs'[Join(slot, p)] = fs[Join(slot, p)]
           /\ \A loc \in Locs :
                (loc.base \in Slots \ {slot} /\ fs[loc].kind = "link") => fs'[loc] = fs[loc]]_vars

\* C24: when reconcile finds a regular file at a tracked path of the slot, it
\* reports a warning for that path and reports the path in none of added,
\* removed and updated.
C24_NonLinkAtTrackedPathWarned ==
  [][last'.op = "reconcile" =>
       \A p \in TrackedIn(registry, last'.name) :
         fs[Join(getProjectPath(last'.name), p)].kind = "file" =>
           /\ p \in Range(last'.warned)
           /\ p \notin Range(last'.added) \cup Range(last'.removed) \cup Range(last'.updated)]_vars

\* C26: link-in-repository: when a tracked path's link records its source
\* and the real file has been deleted from rootPath, reconcile reports the
\* path in none of added, removed and updated and leaves the dangling link
\* in the slot.
C26_DanglingLinkLeftAlone ==
  [][last'.op = "reconcile" =>
       \A p \in TrackedIn(registry, last'.name) :
         LET linkPath == Join(getProjectPath(last'.name), p)
             sourcePath == Join(last'.root, p)
         IN  (fs[linkPath] = Symlink(sourcePath) /\ fs[sourcePath].kind = "none") =>
               /\ p \notin Range(last'.added) \cup Range(last'.removed) \cup Range(last'.updated)
               /\ fs'[linkPath] = Symlink(sourcePath)]_vars

\* A reconcile has returned for a project that tracks a path whose link
\* records its source and whose real file is gone from the root.
C26_ReconciledWithDanglingLink ==
  /\ last.op = "reconcile"
  /\ \E p \in TrackedIn(registry, last.name) :
       /\ fs[Join(getProjectPath(last.name), p)] = Symlink(Join(last.root, p))
       /\ fs[Join(last.root, p)].kind = "none"

\* C27: an init that fails (exit status other than 0) leaves the registry as
\* it was before the command: it holds no record for the new project.
C27_FailedInitLeavesRegistry ==
  [][(last'.op = "init" /\ last'.code # 0) => registry' = registry]_vars

\* C28: after any sequence of init and remove commands no two registered
\* projects have the same rootPath.
C28_RootPathsUnique ==
  \A i, j \in 1..Len(registry) : registry[i].path = registry[j].path => i = j

\* C29: when two invocations that each change the record of a different
\* project have both completed, whatever the interleaving of their load and
\* save steps, the registry shows both changes: a record added or updated is
\* there as written, a record removed is not there.
C29_NoRegistryUpdateLost ==
  (\A k \in DOMAIN procs : procs[k].pc = "done" /\ ~procs[k].threw) =>
    \A k \in DOMAIN procs :
      IF procs[k].call = "removeProject"
        THEN \A i \in 1..Len(registry) : registry[i].name # ProjectOf(k)
        ELSE \E i \in 1..Len(registry) : registry[i] = NewRecord(k)

\* C30: the directory cleanup run by removeLinks removes a directory only
\* when it has no entries, and never the centralized repository's root (which
\* holds its version-control metadata) nor a directory outside the
\* repository: every directory gone after `remove <files>` is inside the
\* repository, below its root, and had nothing left in it.
C30_CleanupRemovesOnlyEmpty ==
  [][(last'.op = "remove" /\ last'.batch # <<>>) =>
       /\ RepoRootDir \in dirs'
       /\ \A d \in dirs \ dirs' :
            /\ d # RepoRootDir
            /\ d.base \in Slots \cup {SyncRepoPath}
            /\ \A loc \in Locs : DirOf(loc) = d => fs'[loc].kind = "none"
            /\ \A c \in dirs' : c # d => ParentDir(c) # d]_vars

\* A `remove <files>` emptied the slot and the cleanup climbed: the slot and
\* the projects directory are gone and the repository root is still there.
C30_CleanupClimbedToRoot ==
  /\ last.op = "remove"
  /\ last.batch # <<>>
  /\ ProjectsDir \notin dirs
  /\ RepoRootDir \in dirs

\* C25: when the process stops between two filesystem steps of createLinks,
\* at most one file the operation has started on is without a working link,
\* and no tracked file is gone from its original location while no link is
\* at that location.
C25_StopLosesNoSource ==
  (procs # <<>> /\ procs[1].pc = "stopped") =>
    LET p == procs[1]
        slot == getProjectPath(p.name)
        rels == RelPaths(p.files)
        linked(rel) ==
          IF p.manager = MoveAndLink
            THEN fs[Join(p.root, rel)] = Symlink(Join(slot, rel)) /\ exists(World, Join(slot, rel))
            ELSE fs[Join(slot, rel)] = Symlink(Join(p.root, rel)) /\ exists(World, Join(p.root, rel))
    IN  /\ Cardinality({k \in 1..p.i : k <= Len(rels) /\ ~linked(rels[k])}) <= 1
        /\ \A rel \in Range(rels) \cap TrackedIn(registry, p.name) :
             fs[Join(p.root, rel)].kind # "none"

=============================================================================
